---------------------------- MODULE Spec2Model ----------------------------
(***************************************************************************)
(* A model of Scripts/abireport.py: examine_abi unpacks the .eopkg         *)
(* artifacts of a directory, scans the unpacked tree and writes the four   *)
(* reports abi_symbols, abi_symbols32, abi_used_libs and abi_used_libs32.  *)
(*                                                                         *)
(* The external tools (file, objdump, nm, readelf, unpisi) are inputs: what *)
(* each of them answers for a file is a field of that file, drawn in Init. *)
(* Python's None is the value None; an uncaught Python exception ends the  *)
(* run in pc = "aborted" with the exception's name in error.               *)
(***************************************************************************)
EXTENDS Naturals, Sequences, FiniteSets

(***************************************************************************)
(* Bounds of the model.                                                    *)
(***************************************************************************)
\* the largest number of package artifacts in the target directory
MaxPkgs == 2
\* the largest number of lines nm prints for one library
MaxSyms == 1
\* the largest number of NEEDED entries readelf prints for one binary
MaxDeps == 1

(***************************************************************************)
(* Values.                                                                 *)
(***************************************************************************)
\* Python's None; "{}".format(None) writes it as the text None
None == "None"

\* line 31: valid_dirs, each with its leading "/" removed (lines 286-287)
valid_dirs == {"usr/lib", "usr/lib64", "usr/lib32", "lib", "lib32", "lib64"}

\* line 42
wanted_symbol_types == {"A", "T"}

\* lines 44-50
ignored_symbols == {"__bss_start", "_edata", "_end", "_fini", "_init"}

\* what file(1) prints for a path, after the "path: " prefix
SO64 == "ELF 64-bit LSB shared object,"
SO32 == "ELF 32-bit LSB shared object,"
EXE64 == "ELF 64-bit LSB executable,"
EXE32 == "ELF 32-bit LSB executable,"
TEXT == "ASCII text"
SYMLINK == "symbolic link to"

\* line 34: reg
reg_match(mg) == mg \in {SO64, SO32}

\* line 37: valid_dyn
valid_dyn_match(mg) == mg \in {SO64, SO32, EXE64, EXE32}

\* line 237: "ELF 32-bit" in mg
has_elf32(mg) == mg \in {SO32, EXE32}

\* The four reports, lines 319-320 and 350-351
ReportNames == {"abi_symbols", "abi_symbols32", "abi_used_libs", "abi_used_libs32"}

\* The paths of the files the artifacts hold, relative to the extraction root
P1 == [dir |-> "usr/lib", name |-> "f1"]
P2 == [dir |-> "usr/bin", name |-> "f2"]
P3 == [dir |-> "usr/lib64", name |-> "f3"]
P4 == [dir |-> "usr/lib32", name |-> "f4"]
PathSeq == <<P1, P2, P3, P4>>

\* Python's order of str (by code point) on the strings the program sorts
StrOrder == <<"None", "__bss_start", "_edata", "_end", "_fini", "_init",
              "bar", "foo", "liba.so.1", "libb.so.1", "libc.so.6", "stale",
              "usr/bin/f2", "usr/lib/f1", "usr/lib32/f4", "usr/lib64/f3">>

Rank(s) == CHOOSE i \in 1..Len(StrOrder) : StrOrder[i] = s

\* os.path.join(dir, name) as the string sorted() compares
PathStr(p) ==
    CASE p = P1 -> "usr/lib/f1"
      [] p = P2 -> "usr/bin/f2"
      [] p = P3 -> "usr/lib64/f3"
      [] p = P4 -> "usr/lib32/f4"

RECURSIVE SortedBy(_, _)
\* sorted(S): the elements of S in ascending order of their rank r[x]
SortedBy(S, r) ==
    IF S = {} THEN <<>>
    ELSE LET m == CHOOSE x \in S : \A y \in S : r[x] <= r[y]
         IN <<m>> \o SortedBy(S \ {m}, r)

\* sorted() of a set of str
sorted(S) == SortedBy(S, [s \in S |-> Rank(s)])

\* sorted() of a set of paths
sorted_paths(S) == SortedBy(S, [p \in S |-> Rank(PathStr(p))])

VARIABLES
    \* ---- the inputs of a run ----
    dirExists,      \* os.path.exists(download_path)
    unpack,         \* package number -> what unpisi does with it
    tree0,          \* path -> the file an artifact holds at that path
    files0,         \* the report files before the run
    workspace0,     \* the extraction directory before the run
    fsFault,        \* the filesystem call that fails in this environment
    \* ---- the state of a run ----
    pc,             \* the position in examine_abi
    error,          \* the exception that ended the run, "" if none
    log,            \* the diagnostics printed so far
    files,          \* the report files in download_path
    workspace,      \* download_path/__extraction
    todo,           \* the eopkgs the extraction loop has not reached
    collected_files,
    pending,        \* the collected files the scan has not reached
    abi_report,
    abi_report32,
    lib_deps,
    lib_deps32,
    \* ---- two runs over the same inputs ----
    run,            \* 1 for the first run, 2 for the second
    prevPc,         \* how the first run ended
    prevFiles       \* the report files the first run left

inputs == <<dirExists, unpack, tree0, files0, workspace0, fsFault>>
locals == <<todo, collected_files, pending, abi_report, abi_report32,
            lib_deps, lib_deps32>>
vars == <<dirExists, unpack, tree0, files0, workspace0, fsFault,
          pc, error, log, files, workspace, todo, collected_files, pending,
          abi_report, abi_report32, lib_deps, lib_deps32, run, prevPc, prevFiles>>

EmptyDict == [k \in {} |-> {}]

NoFile == [exists |-> FALSE, lines |-> <<>>]

NoWorkspace == [exists |-> FALSE, install |-> FALSE, paths |-> {}]

\* a workspace a previous, interrupted run left behind
StaleWorkspace == [exists |-> TRUE, install |-> TRUE, paths |-> {P4}]

StaleFile(n) ==
    [exists |-> TRUE,
     lines |-> IF n \in {"abi_symbols", "abi_symbols32"}
               THEN << <<"stale", "stale">> >> ELSE <<"stale">>]

\* The directory entries of download_path: [stem, ext] with ext the part of
\* the name item.endswith tests
PkgStems == <<"p1", "p2", "p3", "p4">>

Eopkg(i) == [stem |-> PkgStems[i], ext |-> ".eopkg"]

OtherEntries == {[stem |-> "pspec", ext |-> ".xml"]}

\* os.listdir(download_path), lines 252
listdir ==
    DOMAIN unpack \cup OtherEntries
      \cup {[stem |-> n, ext |-> ""] : n \in {m \in ReportNames : files[m].exists}}
      \cup (IF workspace.exists THEN {[stem |-> "__extraction", ext |-> ""]} ELSE {})

\* line 253
endswith_eopkg(item) == item.ext = ".eopkg"

(***************************************************************************)
(* Binary classifier and fact extractor, lines 53-213 and 233-239.  A path *)
(* handed to them is a file of the unpacked tree.                          *)
(***************************************************************************)
\* lines 155-162: the first line file(1) prints, "" when there is none
get_file_magic(path) == tree0[path].magic

\* lines 165-174 (a path of the walk exists and is a file)
is_dynamic_binary(path) ==
    LET mg == get_file_magic(path)
    IN IF mg = "" THEN FALSE ELSE valid_dyn_match(mg)

\* lines 177-185
is_file_valid(path) ==
    IF tree0[path].link THEN FALSE
    ELSE LET mg == get_file_magic(path)
         IN IF mg = "" THEN FALSE ELSE reg_match(mg)

\* lines 233-239
is_32bit(path) ==
    LET mg == get_file_magic(path)
    IN IF mg = "" THEN FALSE ELSE has_elf32(mg)

\* lines 61-71: the second word of objdump's SONAME line, None without one
get_soname(path) == tree0[path].soname

\* lines 74-86: the names of readelf's "Shared library: [name]" lines
get_shared_dependencies(path) == tree0[path].deps

\* lines 53-58: subprocess.getoutput returns what the command printed,
\* whatever its exit status; when getoutput itself raises, get_output
\* prints the error and returns None
get_output_is_None(path) == tree0[path].nm.raises

get_output_lines(path) == tree0[path].nm.out

\* a dump_symbols that forgets the list of ignored symbols
dump_symbols_no_ignore(path) ==
    IF get_output_is_None(path)
    THEN [error |-> "AttributeError", symbols |-> {}]
    ELSE [error |-> "",
          symbols |-> {spl[3] : spl \in
                         {l \in get_output_lines(path) :
                             /\ Len(l) = 3
                             /\ l[2] \in wanted_symbol_types}}]

\* lines 188-213: nm's lines, split into words.  With lines = None,
\* lines.split raises AttributeError, which nothing catches
dump_symbols(path) ==
    IF get_output_is_None(path)
    THEN [error |-> "AttributeError", symbols |-> {}]
    ELSE [error |-> "",
          symbols |-> {spl[3] : spl \in
                         {l \in get_output_lines(path) :
                             /\ Len(l) = 3
                             /\ l[2] \in wanted_symbol_types
                             /\ l[3] \notin ignored_symbols}}]

\* a soname collection that takes every dynamic binary's SONAME
provided_sonames_all_dynamic(paths, want32) ==
    {get_soname(f) : f \in {g \in paths :
        /\ is_dynamic_binary(g)
        /\ is_32bit(g) = want32
        /\ get_soname(g) # None}}

\* lines 94-110 and 127-143: sonames after the walk
provided_sonames(paths, want32) ==
    {get_soname(f) : f \in {g \in paths :
        /\ is_dynamic_binary(g)
        /\ is_32bit(g) = want32
        /\ is_file_valid(g)
        /\ get_soname(g) # None}}

\* lines 95-112 and 128-145: examine after the walk
examine_set(paths, want32) ==
    {g \in paths : is_dynamic_binary(g) /\ is_32bit(g) = want32}

\* a dependency pass that subtracts nothing
all_dependencies_unfiltered(paths, want32) ==
    UNION {get_shared_dependencies(f) : f \in examine_set(paths, want32)}

\* lines 114-119 and 147-152
all_dependencies(paths, want32) ==
    LET sonames == provided_sonames(paths, want32)
    IN UNION {{s \in get_shared_dependencies(f) : s \notin sonames} :
                 f \in examine_set(paths, want32)}

\* lines 89-119
get_all_native_dependencies(paths) == all_dependencies(paths, FALSE)

\* lines 122-152
get_all_32bit_dependencies(paths) == all_dependencies(paths, TRUE)

(***************************************************************************)
(* Report writing, lines 226-230 and 319-369.                              *)
(***************************************************************************)
\* a truncate_file that creates the file it does not find
truncate_file_creates(file) == [exists |-> TRUE, lines |-> <<>>]

\* lines 226-230: a missing file stays missing
truncate_file(file) ==
    IF ~file.exists THEN file ELSE [exists |-> TRUE, lines |-> <<>>]

\* a merge that stores the last library's symbols under the SONAME
merge_symbols_overwrite(tgt, soname, symbols) ==
    IF symbols # {}
    THEN [k \in DOMAIN tgt \cup {soname} |->
            IF k = soname THEN symbols ELSE tgt[k]]
    ELSE tgt

\* lines 314-317
merge_symbols(tgt, soname, symbols) ==
    IF symbols # {}
    THEN [k \in DOMAIN tgt \cup {soname} |->
            (IF k \in DOMAIN tgt THEN tgt[k] ELSE {})
              \cup (IF k = soname THEN symbols ELSE {})]
    ELSE tgt

\* "{}:{}\n".format(soname, symbol) for the symbols of one soname, sorted
lines_of(report, soname) ==
    LET syms == sorted(report[soname])
    IN [i \in 1..Len(syms) |-> <<soname, syms[i]>>]

RECURSIVE concat_lines(_, _)
concat_lines(report, keys) ==
    IF keys = <<>> THEN <<>>
    ELSE lines_of(report, Head(keys)) \o concat_lines(report, Tail(keys))

\* sorted(report.keys()) compares None with a str, and raises TypeError, as
\* soon as the keys are None and at least one SONAME
sorted_keys_raises(report) ==
    None \in DOMAIN report /\ Cardinality(DOMAIN report) >= 2

\* lines 323-332 and 335-344: open(path, "w") creates or empties the file
\* before sorted() runs
write_symbol_report(report, file) ==
    IF DOMAIN report # {}
    THEN IF sorted_keys_raises(report)
         THEN [error |-> "TypeError", file |-> [exists |-> TRUE, lines |-> <<>>]]
         ELSE [error |-> "",
               file |-> [exists |-> TRUE,
                         lines |-> concat_lines(report, sorted(DOMAIN report))]]
    ELSE [error |-> "", file |-> truncate_file(file)]

\* lines 354-360 and 363-369
write_dep_report(deps, file) ==
    IF deps # {}
    THEN [exists |-> TRUE, lines |-> sorted(deps)]
    ELSE truncate_file(file)

(***************************************************************************)
(* examine_abi, lines 242-372, one action per step.                        *)
(***************************************************************************)
\* The diagnostics of lines 58, 246, 257, 266, 277, 308 and 222
MSG_GETOUTPUT == "Error: getoutput"
MSG_NO_DIR == "Work directory does not exist, aborting"
MSG_NO_EOPKGS == "No usable eopkgs found, aborting"
MSG_MAKEDIRS == "Cannot create extraction tree"
MSG_EXTRACT == "Error extracting eopkgs"
MSG_SONAME == "Failed to determine soname of valid library!"
MSG_RMTREE == "Cannot remove tree"

\* sys.exit(1) after msg, or an exception nothing catches
Abort(e, msgs) ==
    /\ pc' = "aborted"
    /\ error' = e
    /\ log' = log \cup msgs

Goto(next, msgs) ==
    /\ pc' = next
    /\ error' = error
    /\ log' = log \cup msgs

\* a Validate that prepares the reports before it looks for artifacts
ValidateTruncatesFirst ==
    /\ pc = "validate"
    /\ LET eopkgs == {item \in listdir : endswith_eopkg(item)}
       IN /\ files' = [n \in ReportNames |-> truncate_file(files[n])]
          /\ IF ~dirExists \/ eopkgs = {}
             THEN Abort("SystemExit", {MSG_NO_EOPKGS}) /\ todo' = todo
             ELSE Goto("prepare", {}) /\ todo' = eopkgs
    /\ UNCHANGED <<inputs, workspace, collected_files, pending, abi_report,
                   abi_report32, lib_deps, lib_deps32, run, prevPc, prevFiles>>

\* lines 243-258
Validate ==
    /\ pc = "validate"
    /\ IF ~dirExists
       THEN Abort("SystemExit", {MSG_NO_DIR}) /\ todo' = todo
       ELSE LET eopkgs == {item \in listdir : endswith_eopkg(item)}
            IN IF eopkgs = {}
               THEN Abort("SystemExit", {MSG_NO_EOPKGS}) /\ todo' = todo
               ELSE Goto("prepare", {}) /\ todo' = eopkgs
    /\ UNCHANGED <<inputs, files, workspace, collected_files, pending, abi_report,
                   abi_report32, lib_deps, lib_deps32, run, prevPc, prevFiles>>

\* lines 260-269: purge_tree (lines 216-223), then os.makedirs
PrepareWorkspace ==
    /\ pc = "prepare"
    /\ IF workspace.exists /\ fsFault = "rmtree"
       THEN Abort("SystemExit", {MSG_RMTREE}) /\ workspace' = workspace
       ELSE IF fsFault = "makedirs"
       THEN Abort("SystemExit", {MSG_MAKEDIRS}) /\ workspace' = NoWorkspace
       ELSE /\ Goto("extract", {})
            /\ workspace' = [exists |-> TRUE, install |-> FALSE, paths |-> {}]
    /\ UNCHANGED <<inputs, files, locals, run, prevPc, prevFiles>>

\* lines 272-277, one turn of the loop over the set eopkgs: an artifact that
\* fails to unpack ends the loop, for the try encloses it
Unpack(eopkg) ==
    /\ pc = "extract"
    /\ eopkg \in todo
    /\ IF unpack[eopkg] = "ok"
       THEN /\ workspace' = [workspace EXCEPT
                   !.install = TRUE,
                   !.paths = @ \cup {f \in DOMAIN tree0 : tree0[f].pkg = eopkg.stem}]
            /\ todo' = todo \ {eopkg}
            /\ log' = log
       ELSE /\ workspace' = [workspace EXCEPT
                   !.install = @ \/ unpack[eopkg] = "partial"]
            /\ todo' = {}
            /\ log' = log \cup {MSG_EXTRACT}
    /\ pc' = IF todo' = {} THEN "collect" ELSE "extract"
    /\ UNCHANGED <<inputs, error, files, collected_files, pending, abi_report,
                   abi_report32, lib_deps, lib_deps32, run, prevPc, prevFiles>>

\* lines 285-299: the files of the conventional directories that are valid
collect(paths) == {f \in paths : f.dir \in valid_dirs /\ is_file_valid(f)}

\* lines 280-302: os.chdir raises FileNotFoundError without install/
CollectLibraries ==
    /\ pc = "collect"
    /\ IF ~workspace.install
       THEN /\ Abort("FileNotFoundError", {})
            /\ UNCHANGED <<collected_files, pending, abi_report, abi_report32>>
       ELSE /\ collected_files' = collect(workspace.paths)
            /\ pending' = collected_files'
            /\ abi_report' = EmptyDict
            /\ abi_report32' = EmptyDict
            /\ Goto(IF pending' = {} THEN "write_symbols" ELSE "examine", {})
    /\ UNCHANGED <<inputs, files, workspace, todo, lib_deps, lib_deps32,
                   run, prevPc, prevFiles>>

\* lines 305-317, one turn of the loop over sorted(collected_files)
ExamineLibrary ==
    /\ pc = "examine"
    /\ LET library == Head(sorted_paths(pending))
           soname == get_soname(library)
           dumped == dump_symbols(library)
           msgs == IF soname = None THEN {MSG_SONAME} ELSE {}
       IN IF dumped.error # ""
          THEN /\ Abort(dumped.error, msgs \cup {MSG_GETOUTPUT})
               /\ UNCHANGED <<pending, abi_report, abi_report32>>
          ELSE /\ pending' = pending \ {library}
               /\ abi_report' = IF ~is_32bit(library)
                                THEN merge_symbols(abi_report, soname, dumped.symbols)
                                ELSE abi_report
               /\ abi_report32' = IF is_32bit(library)
                                  THEN merge_symbols(abi_report32, soname, dumped.symbols)
                                  ELSE abi_report32
               /\ Goto(IF pending' = {} THEN "write_symbols" ELSE "examine", msgs)
    /\ UNCHANGED <<inputs, files, workspace, todo, collected_files, lib_deps,
                   lib_deps32, run, prevPc, prevFiles>>

\* lines 319-344
WriteSymbolReports ==
    /\ pc = "write_symbols"
    /\ LET w64 == write_symbol_report(abi_report, files["abi_symbols"])
           w32 == write_symbol_report(abi_report32, files["abi_symbols32"])
       IN IF w64.error # ""
          THEN /\ Abort(w64.error, {})
               /\ files' = [files EXCEPT !["abi_symbols"] = w64.file]
          ELSE IF w32.error # ""
          THEN /\ Abort(w32.error, {})
               /\ files' = [files EXCEPT !["abi_symbols"] = w64.file,
                                         !["abi_symbols32"] = w32.file]
          ELSE /\ Goto("write_deps", {})
               /\ files' = [files EXCEPT !["abi_symbols"] = w64.file,
                                         !["abi_symbols32"] = w32.file]
    /\ UNCHANGED <<inputs, workspace, locals, run, prevPc, prevFiles>>

\* lines 346-369
WriteDepReports ==
    /\ pc = "write_deps"
    /\ lib_deps' = get_all_native_dependencies(workspace.paths)
    /\ lib_deps32' = get_all_32bit_dependencies(workspace.paths)
    /\ files' = [files EXCEPT
          !["abi_used_libs"] = write_dep_report(lib_deps', @),
          !["abi_used_libs32"] = write_dep_report(lib_deps32', @)]
    /\ Goto("cleanup", {})
    /\ UNCHANGED <<inputs, workspace, todo, collected_files, pending,
                   abi_report, abi_report32, run, prevPc, prevFiles>>

\* lines 371-372: purge_tree (lines 216-223)
Cleanup ==
    /\ pc = "cleanup"
    /\ IF fsFault = "rmtree"
       THEN Abort("SystemExit", {MSG_RMTREE}) /\ workspace' = workspace
       ELSE Goto("done", {}) /\ workspace' = NoWorkspace
    /\ UNCHANGED <<inputs, files, locals, run, prevPc, prevFiles>>

\* lines 374-378: the script is started again on the same directory contents
Rerun ==
    /\ pc \in {"done", "aborted"}
    /\ run = 1
    /\ run' = 2
    /\ prevPc' = pc
    /\ prevFiles' = files
    /\ files' = files0
    /\ workspace' = workspace0
    /\ pc' = "validate"
    /\ error' = ""
    /\ log' = {}
    /\ todo' = {}
    /\ collected_files' = {}
    /\ pending' = {}
    /\ abi_report' = EmptyDict
    /\ abi_report32' = EmptyDict
    /\ lib_deps' = {}
    /\ lib_deps32' = {}
    /\ UNCHANGED inputs

UnpackSome == \E eopkg \in todo : Unpack(eopkg)

Next ==
    \/ Validate
    \/ PrepareWorkspace
    \/ UnpackSome
    \/ CollectLibraries
    \/ ExamineLibrary
    \/ WriteSymbolReports
    \/ WriteDepReports
    \/ Cleanup

NextTwice ==
    \/ Next
    \/ Rerun

(***************************************************************************)
(* The inputs.                                                             *)
(***************************************************************************)
\* nm's lines, split into words: an address, a kind and a name, and a line
\* of another shape
NmLines ==
    {<<"0", "T", "_init">>, <<"0", "T", "_fini">>, <<"0", "T", "_end">>,
     <<"0", "T", "_edata">>, <<"0", "T", "__bss_start">>,
     <<"0", "A", "_init">>, <<"0", "A", "_end">>,
     <<"0", "T", "foo">>, <<"0", "A", "bar">>, <<"0", "D", "foo">>,
     <<"U", "bar">>}

\* what the shell prints when nm cannot read the file
NmDiagnostic == <<"nm:", "f:", "file", "format", "not", "recognized">>

\* nm's outcomes: it prints a table and exits 0; it exits non-zero after a
\* diagnostic; subprocess.getoutput raises (no shell, undecodable output)
NmResults ==
    {[rc |-> 0, raises |-> FALSE, out |-> t] :
        t \in {u \in SUBSET NmLines : Cardinality(u) <= MaxSyms}}
      \cup {[rc |-> 1, raises |-> FALSE, out |-> {NmDiagnostic}],
            [rc |-> 1, raises |-> TRUE, out |-> {}]}

NmNothing == [rc |-> 0, raises |-> FALSE, out |-> {}]

Sonames == {"liba.so.1", "libb.so.1"}

DepNames == {"liba.so.1", "libb.so.1", "libc.so.6"}

DepSets == {d \in SUBSET DepNames : Cardinality(d) <= MaxDeps}

\* (is a symbolic link, what file(1) prints): file(1) reports the link
\* itself, or its target under POSIXLY_CORRECT
FileKinds ==
    {<<FALSE, SO64>>, <<FALSE, SO32>>, <<FALSE, EXE64>>, <<FALSE, EXE32>>,
     <<FALSE, TEXT>>, <<FALSE, "">>, <<TRUE, SO64>>, <<TRUE, SO32>>,
     <<TRUE, EXE64>>, <<TRUE, SYMLINK>>}

StartOfRun ==
    /\ pc = "validate"
    /\ error = ""
    /\ log = {}
    /\ files = files0
    /\ workspace = workspace0
    /\ todo = {}
    /\ collected_files = {}
    /\ pending = {}
    /\ abi_report = EmptyDict
    /\ abi_report32 = EmptyDict
    /\ lib_deps = {}
    /\ lib_deps32 = {}
    /\ run = 1
    /\ prevPc = "validate"
    /\ prevFiles = files0

\* the files two artifacts of a build hold
LibraryFile(stem) ==
    [pkg |-> stem, link |-> FALSE, magic |-> SO64, soname |-> "liba.so.1",
     nm |-> [rc |-> 0, raises |-> FALSE, out |-> {<<"0", "T", "foo">>}],
     deps |-> {"libc.so.6"}]

ToolFile(stem) ==
    [pkg |-> stem, link |-> FALSE, magic |-> EXE32, soname |-> None,
     nm |-> NmNothing, deps |-> {"liba.so.1"}]

PackageFiles(stem) == {LibraryFile(stem), ToolFile(stem)}

\* Any directory: up to MaxPkgs artifacts of one file each, every artifact
\* unpacking, failing at once or failing after it created install/
Init ==
    /\ dirExists \in BOOLEAN
    /\ \E n \in 0..MaxPkgs :
         /\ unpack \in [{Eopkg(i) : i \in 1..n} -> {"ok", "fail", "partial"}]
         /\ \E t \in [{PathSeq[i] : i \in 1..n} -> PackageFiles("")] :
              tree0 = [p \in DOMAIN t |->
                         [t[p] EXCEPT !.pkg =
                            PkgStems[CHOOSE i \in 1..n : PathSeq[i] = p]]]
    /\ \E pre \in SUBSET ReportNames :
         files0 = [r \in ReportNames |->
                     IF r \in pre THEN StaleFile(r) ELSE NoFile]
    /\ workspace0 \in {NoWorkspace, StaleWorkspace}
    /\ fsFault \in {"none", "rmtree", "makedirs"}
    /\ dirExists = FALSE =>
         /\ DOMAIN unpack = {}
         /\ workspace0 = NoWorkspace
         /\ fsFault = "none"
         /\ \A r \in ReportNames : ~files0[r].exists
    /\ StartOfRun

Spec == Init /\ [][Next]_vars

SpecTwice == Init /\ [][NextTwice]_vars

\* One artifact that unpacks, holding two libraries of the conventional
\* directories: any width, any SONAME or none, any outcome of nm
InitSym ==
    /\ dirExists = TRUE
    /\ unpack = [e \in {Eopkg(1)} |-> "ok"]
    /\ tree0 \in [{P1, P3} ->
          [pkg : {PkgStems[1]}, link : {FALSE}, magic : {SO64, SO32},
           soname : Sonames \cup {None}, nm : NmResults, deps : {{}}]]
    /\ files0 = [r \in ReportNames |-> NoFile]
    /\ workspace0 = NoWorkspace
    /\ fsFault = "none"
    /\ StartOfRun

SpecSym == InitSym /\ [][Next]_vars

\* One artifact that unpacks, holding a file of a library directory and a
\* file of usr/bin: any kind, any SONAME or none, any dependencies
InitDeps ==
    /\ dirExists = TRUE
    /\ unpack = [e \in {Eopkg(1)} |-> "ok"]
    /\ \E t \in [{P1, P2} -> FileKinds \X (Sonames \cup {None}) \X DepSets] :
         tree0 = [p \in {P1, P2} |->
                    [pkg |-> PkgStems[1], link |-> t[p][1][1],
                     magic |-> t[p][1][2], soname |-> t[p][2],
                     nm |-> NmNothing, deps |-> t[p][3]]]
    /\ files0 = [r \in ReportNames |-> NoFile]
    /\ workspace0 = NoWorkspace
    /\ fsFault = "none"
    /\ StartOfRun

SpecDeps == InitDeps /\ [][Next]_vars

(***************************************************************************)
(* The vocabulary of the claims, stated on what the tools answer for a     *)
(* file and not on the program's own predicates.                           *)
(***************************************************************************)
\* a regular, non-symlink ELF shared object
ValidSharedLibrary(f) == ~tree0[f].link /\ tree0[f].magic \in {SO64, SO32}

\* an ELF shared object or executable, symlinked or not
DynamicBinary(f) == tree0[f].magic \in {SO64, SO32, EXE64, EXE32}

Width(f) == IF tree0[f].magic \in {SO32, EXE32} THEN 32 ELSE 64

\* the names nm lists with kind A or T, the linker's bookkeeping names apart
QualifyingSymbols(f) ==
    {l[3] : l \in {m \in tree0[f].nm.out :
        /\ Len(m) = 3
        /\ m[2] \in {"A", "T"}
        /\ m[3] \notin {"__bss_start", "_edata", "_end", "_fini", "_init"}}}

NmFailed(f) == tree0[f].nm.rc # 0 \/ tree0[f].nm.raises

Examined == collected_files \ pending

SymbolReport(b) == IF b = 32 THEN abi_report32 ELSE abi_report

SymbolFile(b) == IF b = 32 THEN files["abi_symbols32"] ELSE files["abi_symbols"]

DepReport(b) == IF b = 32 THEN lib_deps32 ELSE lib_deps

DepFile(b) == IF b = 32 THEN files["abi_used_libs32"] ELSE files["abi_used_libs"]

LinesOf(file) == {file.lines[i] : i \in 1..Len(file.lines)}

Entry(report, s) == IF s \in DOMAIN report THEN report[s] ELSE {}

NoEopkgInDirectory == \A item \in DOMAIN unpack : item.ext # ".eopkg"

(***************************************************************************)
(* C1: after a run that completes normally each of the four report files   *)
(* exists in the target directory, whether or not it existed before: an    *)
(* empty report gives an empty file, not a missing one.                    *)
(***************************************************************************)
C1_ReportsExistAfterRun ==
    pc = "done" => \A n \in ReportNames : files[n].exists

(***************************************************************************)
(* C1, amended: after a run that completes normally a report file exists   *)
(* exactly if its report has something to write or the file existed        *)
(* before the run; with nothing to write a file that existed is empty and  *)
(* a file that did not exist is still missing.                             *)
(***************************************************************************)
C1_ReportExistsIfWrittenOrOld ==
    pc = "done" =>
        \A n \in ReportNames :
            LET nothing == CASE n = "abi_symbols" -> DOMAIN abi_report = {}
                             [] n = "abi_symbols32" -> DOMAIN abi_report32 = {}
                             [] n = "abi_used_libs" -> lib_deps = {}
                             [] n = "abi_used_libs32" -> lib_deps32 = {}
            IN /\ files[n].exists <=> (~nothing \/ files0[n].exists)
               /\ nothing => files[n].lines = <<>>
               /\ ~nothing => files[n].lines # <<>>

\* one report written, one old file emptied, one file still missing
C1_Witness ==
    /\ pc = "done"
    /\ files["abi_symbols"].lines # <<>>
    /\ \E n \in ReportNames :
         files0[n].exists /\ files0[n].lines # <<>> /\ files[n].lines = <<>>
    /\ \E n \in ReportNames : ~files0[n].exists /\ ~files[n].exists

(***************************************************************************)
(* C2: for each bit-width, no name of that width's dependency report, as   *)
(* computed and as written, is the SONAME of a valid shared library of     *)
(* that width anywhere in the scanned tree.                                *)
(***************************************************************************)
C2_NoProvidedSonameReported ==
    pc = "cleanup" =>
        \A b \in {32, 64} : \A f \in workspace.paths :
            (ValidSharedLibrary(f) /\ Width(f) = b /\ tree0[f].soname # None)
                => /\ tree0[f].soname \notin DepReport(b)
                   /\ tree0[f].soname \notin LinesOf(DepFile(b))

\* a provider and a consumer of one width, next to an external dependency
C2_Witness ==
    /\ pc = "cleanup"
    /\ \E f, g \in workspace.paths :
         /\ f # g
         /\ ValidSharedLibrary(f) /\ Width(f) = 64
         /\ DynamicBinary(g) /\ Width(g) = 64
         /\ tree0[f].soname \in tree0[g].deps
         /\ tree0[f].deps # {}
         /\ tree0[f].soname \notin tree0[f].deps
    /\ lib_deps # {}

(***************************************************************************)
(* C3: when two or more collected valid shared libraries of one width      *)
(* declare the same SONAME, the report entry of that SONAME after the scan *)
(* is the union of the qualifying symbols of all of them, and the written  *)
(* report lists each of these symbols once.                                *)
(***************************************************************************)
C3_SameSonameMerged ==
    \A b \in {32, 64} : \A s \in Sonames :
        LET libs == {f \in collected_files : Width(f) = b /\ tree0[f].soname = s}
            all == UNION {QualifyingSymbols(f) : f \in libs}
            written == {i \in 1..Len(SymbolFile(b).lines) :
                           SymbolFile(b).lines[i][1] = s}
        IN Cardinality(libs) >= 2 =>
             /\ pc \in {"write_symbols", "write_deps", "cleanup", "done"}
                   => Entry(SymbolReport(b), s) = all
             /\ pc \in {"write_deps", "cleanup", "done"}
                   => /\ {SymbolFile(b).lines[i][2] : i \in written} = all
                      /\ Cardinality(written) = Cardinality(all)

C3_Witness ==
    /\ pc = "done"
    /\ tree0[P1].soname = tree0[P3].soname
    /\ tree0[P1].soname # None
    /\ Width(P1) = 64 /\ Width(P3) = 64
    /\ {P1, P3} \subseteq collected_files
    /\ QualifyingSymbols(P1) # {}
    /\ QualifyingSymbols(P3) # {}
    /\ QualifyingSymbols(P1) # QualifyingSymbols(P3)
    /\ Len(files["abi_symbols"].lines) = 2

(***************************************************************************)
(* C4: when nm fails on a collected library the run aborts: no run in      *)
(* which symbol extraction failed on a library reaches the Write step or   *)
(* normal completion.                                                      *)
(***************************************************************************)
C4_NmFailureAborts ==
    pc \in {"write_symbols", "write_deps", "cleanup", "done"}
        => \A f \in collected_files : ~NmFailed(f)

(***************************************************************************)
(* C5: an artifact that fails to unpack does not abort the run, whichever  *)
(* artifact it is and also when it is the only one: after the failure the  *)
(* run ends only by normal completion or by one of the fatal exits.        *)
(***************************************************************************)
C5_UnpackFailureRecoverable ==
    (MSG_EXTRACT \in log /\ pc = "aborted") => error = "SystemExit"

(***************************************************************************)
(* C6: a valid shared library without a SONAME does not stop the run: the  *)
(* scan goes on and the run ends only by normal completion or by a fatal   *)
(* condition (a failing nm, a failing filesystem call).                    *)
(***************************************************************************)
C6_MissingSonameRecoverable ==
    (MSG_SONAME \in log /\ pc = "aborted")
        => error \in {"SystemExit", "AttributeError"}

(***************************************************************************)
(* C7: with no .eopkg file in the target directory the run ends in a       *)
(* non-zero exit and the directory is as before: no report file created,   *)
(* truncated or rewritten, no extraction workspace created or purged.      *)
(***************************************************************************)
C7_NoArtifactsNoChange ==
    NoEopkgInDirectory =>
        /\ pc \in {"validate", "aborted"}
        /\ pc = "aborted" => error = "SystemExit"
        /\ files = files0
        /\ workspace = workspace0

C7_Witness ==
    /\ dirExists
    /\ NoEopkgInDirectory
    /\ pc = "aborted"
    /\ \E n \in ReportNames : files0[n].exists /\ files0[n].lines # <<>>
    /\ \E n \in ReportNames : ~files0[n].exists
    /\ workspace0.exists

(***************************************************************************)
(* C8: two runs over the same artifacts and the same directory, differing  *)
(* only in the order in which sets and directories are enumerated, and     *)
(* both completing normally, leave the same report files, also when an     *)
(* artifact fails to unpack.                                               *)
(***************************************************************************)
C8_SameInputsSameReports ==
    (run = 2 /\ pc = "done" /\ prevPc = "done") => files = prevFiles

(***************************************************************************)
(* C9: none of __bss_start, _edata, _end, _fini, _init is a symbol of      *)
(* either symbol report, as built and as written, and every symbol of a    *)
(* report was listed by nm with kind A or T for an examined library of     *)
(* that width declaring that SONAME.                                       *)
(***************************************************************************)
C9_OnlyWantedSymbols ==
    \A b \in {32, 64} :
        LET pairs == UNION {{<<s, y>> : y \in SymbolReport(b)[s]} :
                               s \in DOMAIN SymbolReport(b)}
                   \cup LinesOf(SymbolFile(b))
        IN \A p \in pairs :
             /\ p[2] \notin {"__bss_start", "_edata", "_end", "_fini", "_init"}
             /\ \E f \in Examined :
                  /\ Width(f) = b
                  /\ tree0[f].soname = p[1]
                  /\ \E l \in tree0[f].nm.out :
                       Len(l) = 3 /\ l[2] \in {"A", "T"} /\ l[3] = p[2]

C9_Witness ==
    /\ pc = "done"
    /\ \E f, g \in collected_files :
         /\ Width(f) = Width(g)
         /\ tree0[f].soname = tree0[g].soname
         /\ \E l \in tree0[f].nm.out :
              Len(l) = 3 /\ l[2] \in {"A", "T"} /\ l[3] = "_init"
         /\ QualifyingSymbols(g) # {}
         /\ SymbolFile(Width(g)).lines # <<>>

(***************************************************************************)
(* C10: the set of provided SONAMEs of a width holds the SONAME of every   *)
(* dynamic binary of that width, valid shared library or not: no name of   *)
(* a width's dependency report is the SONAME of a dynamic binary of that   *)
(* width in the tree.                                                      *)
(***************************************************************************)
C10_EveryDynamicSonameSubtracted ==
    pc = "cleanup" =>
        \A f \in workspace.paths :
            (DynamicBinary(f) /\ tree0[f].soname # None)
                => tree0[f].soname \notin DepReport(Width(f))

(***************************************************************************)
(* C10, amended: the set of provided SONAMEs of a width holds the SONAMEs  *)
(* of the valid shared libraries of that width and no others: the report   *)
(* of a width is what the dynamic binaries of that width declare, less     *)
(* the SONAMEs of the valid shared libraries of that width.                *)
(***************************************************************************)
C10_OnlyValidLibrarySonamesSubtracted ==
    pc = "cleanup" =>
        \A b \in {32, 64} :
            LET declared == UNION {tree0[f].deps :
                    f \in {g \in workspace.paths : DynamicBinary(g) /\ Width(g) = b}}
                provided == {tree0[f].soname :
                    f \in {g \in workspace.paths :
                             ValidSharedLibrary(g) /\ Width(g) = b}}
            IN /\ DepReport(b) = declared \ provided
               /\ LinesOf(DepFile(b)) = declared \ provided

\* an executable or symlinked object declares the SONAME a binary of its
\* width needs, no valid library does, and the name is reported
C10_Witness ==
    /\ pc = "cleanup"
    /\ \E f, g \in workspace.paths :
         /\ DynamicBinary(f) /\ ~ValidSharedLibrary(f)
         /\ DynamicBinary(g) /\ Width(g) = Width(f)
         /\ tree0[f].soname # None
         /\ tree0[f].soname \in tree0[g].deps
         /\ tree0[f].soname \in DepReport(Width(f))
         /\ tree0[f].soname \in LinesOf(DepFile(Width(f)))
=============================================================================
